---- MODULE Spec2Model ----
(***************************************************************************)
(* The IP allow-list gate of the root route (loader, App, ErrorBoundary)   *)
(* in its three variants: src/app/root.tsx, src/unnamed/part_000 and       *)
(* src/unnamed/part_001.                                                   *)
(*                                                                         *)
(* A JavaScript string is a sequence of one-character strings, so that     *)
(* split(',')[0] and trim() are computed character by character.  null and *)
(* undefined are one-element sequences holding a token that is no          *)
(* character.                                                              *)
(***************************************************************************)
EXTENDS Naturals, Sequences, FiniteSets, TLC

VARIABLES variant, request, env, pc, outcome, page, logs, remembered

vars == <<variant, request, env, pc, outcome, page, logs, remembered>>

----------------------------------------------------------------------------
(* JavaScript values and operators used by the loaders *)

NULL == <<"<null>">>

UNDEFINED == <<"<undefined>">>

EMPTY == <<>>

\* '127.0.0.1'
LOOPBACK == <<"1", "2", "7", ".", "0", ".", "0", ".", "1">>

\* 'localhost'
LOCALHOST == <<"l", "o", "c", "a", "l", "h", "o", "s", "t">>

\* '89.76.169.41', the address hardcoded in part_000
HARDCODED_IP == <<"8", "9", ".", "7", "6", ".", "1", "6", "9", ".", "4", "1">>

\* "Access denied: Unauthorized IP address"
ACCESS_DENIED == "Access denied: Unauthorized IP address"

\* a value is truthy unless it is null, undefined or the empty string
Truthy(v) == v # NULL /\ v # UNDEFINED /\ v # EMPTY

\* a || b
Or(a, b) == IF Truthy(a) THEN a ELSE b

IsWhitespace(c) == c = " "

RECURSIVE TrimStart(_)
TrimStart(s) ==
    IF s # EMPTY /\ IsWhitespace(Head(s)) THEN TrimStart(Tail(s)) ELSE s

RECURSIVE TrimEnd(_)
TrimEnd(s) ==
    IF s # EMPTY /\ IsWhitespace(s[Len(s)])
    THEN TrimEnd(SubSeq(s, 1, Len(s) - 1))
    ELSE s

\* s.trim()
Trim(s) == TrimEnd(TrimStart(s))

\* s.split(',')[0]: the characters before the first comma, all of s if none
Split0(s) ==
    LET commas == {i \in 1..Len(s) : s[i] = ","}
    IN  IF commas = {} THEN s
        ELSE SubSeq(s, 1, (CHOOSE i \in commas : \A j \in commas : i <= j) - 1)

\* request.headers.get(name)
HeadersGet(headers, name) == headers[name]

\* json(body, { status }); the status defaults to 200
json(body, status) == [status |-> status, body |-> body]

----------------------------------------------------------------------------
(* src/app/root.tsx *)

\* isAllowedIp with the comparison loosened to a prefix match (startsWith)
isAllowedIp_startsWith(requestIp, allowedIp) ==
    IF requestIp = LOOPBACK \/ requestIp = LOCALHOST
    THEN TRUE
    ELSE /\ Len(requestIp) >= Len(allowedIp)
         /\ SubSeq(requestIp, 1, Len(allowedIp)) = allowedIp

\* isAllowedIp without the exemption of the local addresses
isAllowedIp_noLocal(requestIp, allowedIp) == requestIp = allowedIp

\* isAllowedIp(requestIp, allowedIp)
isAllowedIp(requestIp, allowedIp) ==
    IF requestIp = LOOPBACK \/ requestIp = LOCALHOST
    THEN TRUE
    ELSE requestIp = allowedIp

\* const forwardedFor = get('cf-connecting-ip') || get('x-forwarded-for')
forwardedFor(headers) ==
    Or(HeadersGet(headers, "cf-connecting-ip"),
       HeadersGet(headers, "x-forwarded-for"))

\* firstHop without the split: the whole chain, trimmed
firstHop_noSplit(ff) ==
    IF ff = NULL \/ ff = UNDEFINED THEN UNDEFINED ELSE Trim(ff)

\* forwardedFor?.split(',')[0].trim(): undefined when forwardedFor is null
firstHop(ff) ==
    IF ff = NULL \/ ff = UNDEFINED THEN UNDEFINED ELSE Trim(Split0(ff))

\* const requestIp = firstHop || get('x-real-ip') || '127.0.0.1'
requestIp(headers) ==
    Or(Or(firstHop(forwardedFor(headers)), HeadersGet(headers, "x-real-ip")),
       LOOPBACK)

\* deniedBody with the two addresses swapped
deniedBody_swapped(ip, allowedIp) ==
    [error |-> ACCESS_DENIED, requestIp |-> allowedIp, allowedIp |-> ip]

\* the body of the thrown 403 response
deniedBody(ip, allowedIp) ==
    [error |-> ACCESS_DENIED, requestIp |-> ip, allowedIp |-> allowedIp]

\* the body of the returned response
allowedBody(ip) == [ok |-> TRUE, ip |-> ip]

\* loader with an unset ALLOWED_IP defaulting to '127.0.0.1'
loader_defaultLoopback(headers, allowedIp) ==
    LET ip == requestIp(headers)
        configured == Or(allowedIp, LOOPBACK)
    IN  IF Truthy(configured) /\ ~isAllowedIp(ip, configured)
        THEN [how |-> "throw", response |-> json(deniedBody(ip, configured), 403)]
        ELSE [how |-> "return", response |-> json(allowedBody(ip), 200)]

\* loader with a rate limit: an address seen in an earlier request is denied
loader_rateLimited(headers, allowedIp) ==
    LET ip == requestIp(headers)
    IN  IF \/ Truthy(allowedIp) /\ ~isAllowedIp(ip, allowedIp)
           \/ remembered.seen /\ requestIp(remembered.request) = ip
        THEN [how |-> "throw", response |-> json(deniedBody(ip, allowedIp), 403)]
        ELSE [how |-> "return", response |-> json(allowedBody(ip), 200)]

\* loader({ request, context }), context.env.ALLOWED_IP being allowedIp
loader(headers, allowedIp) ==
    LET ip == requestIp(headers)
    IN  IF Truthy(allowedIp) /\ ~isAllowedIp(ip, allowedIp)
        THEN [how |-> "throw", response |-> json(deniedBody(ip, allowedIp), 403)]
        ELSE [how |-> "return", response |-> json(allowedBody(ip), 200)]

\* logRecord reading the address from the field of the denial body
logRecord_wrongField(data) ==
    [message |-> "Application initialized",
     clientIp |-> IF "requestIp" \in DOMAIN data THEN data.requestIp ELSE UNDEFINED]

\* the record App hands to logStore.logSystem; data is useLoaderData().
\* theme, platform, userAgent and timestamp come from the browser and are
\* left out.
logRecord(data) ==
    [message |-> "Application initialized",
     clientIp |-> IF "ip" \in DOMAIN data THEN data.ip ELSE UNDEFINED]

----------------------------------------------------------------------------
(* src/unnamed/part_000 *)

isAllowedIp_part000(requestIp0) ==
    LET allowedIp == HARDCODED_IP
    IN  requestIp0 = allowedIp

forwardedFor_part000(headers) ==
    Or(HeadersGet(headers, "cf-connecting-ip"),
       HeadersGet(headers, "x-forwarded-for"))

requestIp_part000(headers) ==
    LET ff == forwardedFor_part000(headers)
        hop == IF ff = NULL \/ ff = UNDEFINED THEN UNDEFINED ELSE Trim(Split0(ff))
    IN  Or(Or(hop, HeadersGet(headers, "x-real-ip")), LOOPBACK)

\* the 403 response is returned, not thrown
loader_part000(headers) ==
    LET ip == requestIp_part000(headers)
    IN  IF ~isAllowedIp_part000(ip)
        THEN [how |-> "return",
              response |-> json([error |-> ACCESS_DENIED, requestIp |-> ip], 403)]
        ELSE [how |-> "return",
              response |-> json([ok |-> TRUE, ip |-> ip], 200)]

logRecord_part000(data) ==
    [message |-> "Application initialized",
     clientIp |-> IF "ip" \in DOMAIN data THEN data.ip ELSE UNDEFINED]

----------------------------------------------------------------------------
(* src/unnamed/part_001 *)

\* const ip = get('x-forwarded-for')?.split(',')[0] || get('x-real-ip') || '127.0.0.1'
ip_part001(headers) ==
    LET xff == HeadersGet(headers, "x-forwarded-for")
        hop == IF xff = NULL \/ xff = UNDEFINED THEN UNDEFINED ELSE Split0(xff)
    IN  Or(Or(hop, HeadersGet(headers, "x-real-ip")), LOOPBACK)

loader_part001(headers, envAllowedIp) ==
    LET ip == ip_part001(headers)
        allowedIp == Or(envAllowedIp, LOOPBACK)
    IN  IF ip # allowedIp /\ ip # LOOPBACK
        THEN [how |-> "throw",
              response |-> json([error |-> ACCESS_DENIED], 403)]
        ELSE [how |-> "return", response |-> json([ok |-> TRUE], 200)]

\* App of part_001 logs no clientIp
logRecord_part001 == [message |-> "Application initialized"]

----------------------------------------------------------------------------
(* The requests and configurations the model draws from.                   *)
(* Headers.get returns a header's value with leading and trailing          *)
(* whitespace removed, so every value here is normalized: whitespace       *)
(* occurs only inside a value, around the commas of a chain.               *)

\* the longest chain of comma-separated entries in a header value
MaxEntries == 2

\* an address that is neither allowed nor local
OTHER_IP == <<"1", ".", "2", ".", "3", ".", "4">>

FirstEntries == {EMPTY, HARDCODED_IP, OTHER_IP, LOOPBACK, LOCALHOST}

TailEntries == {EMPTY, HARDCODED_IP}

Separators == {<<",">>, <<",", " ">>, <<" ", ",", " ">>}

RECURSIVE Chains(_)
Chains(k) ==
    IF k <= 1
    THEN FirstEntries
    ELSE {c \o sep \o t : c \in Chains(k - 1), sep \in Separators, t \in TailEntries}

IsNormalized(s) ==
    s = EMPTY \/ (~IsWhitespace(s[1]) /\ ~IsWhitespace(s[Len(s)]))

HeaderValues ==
    {NULL} \cup {s \in UNION {Chains(k) : k \in 1..MaxEntries} : IsNormalized(s)}

XRealValues ==
    {NULL, EMPTY, HARDCODED_IP, OTHER_IP, LOOPBACK, LOCALHOST,
     HARDCODED_IP \o <<",">> \o OTHER_IP}

Headers(cf, xff, xreal) ==
    ("cf-connecting-ip" :> cf) @@ ("x-forwarded-for" :> xff) @@ ("x-real-ip" :> xreal)

Requests ==
    {Headers(cf, xff, xreal) :
        cf \in HeaderValues, xff \in HeaderValues, xreal \in XRealValues}

\* context.env.ALLOWED_IP: unset, empty, or an address
EnvValues == {UNDEFINED, EMPTY, HARDCODED_IP, OTHER_IP, LOOPBACK}

Variants == {"root", "part_000", "part_001"}

\* the requests of the multi-request specification
SeqHeaderValues ==
    {NULL, OTHER_IP, OTHER_IP \o <<" ", ",", " ">> \o HARDCODED_IP,
     <<",">> \o HARDCODED_IP}

SeqRequests ==
    {Headers(cf, xff, xreal) :
        cf \in {NULL, HARDCODED_IP}, xff \in SeqHeaderValues,
        xreal \in {NULL, LOCALHOST}}

SeqEnvValues == {UNDEFINED, HARDCODED_IP}

----------------------------------------------------------------------------
(* The state machine: one document request at a time goes through the      *)
(* route's loader and is then rendered, by App when the loader returned    *)
(* and by ErrorBoundary when it threw.                                     *)

NoOutcome == [how |-> "none"]

NoRequest == Headers(NULL, NULL, NULL)

Nothing == [seen |-> FALSE]

Init ==
    /\ variant \in Variants
    /\ request \in Requests
    /\ env \in [ALLOWED_IP : EnvValues]
    /\ pc = "loading"
    /\ outcome = NoOutcome
    /\ page = "none"
    /\ logs = <<>>
    /\ remembered = Nothing

\* the framework calls the variant's loader with the request and the context
Loader ==
    /\ pc = "loading"
    /\ \/ variant = "root" /\ outcome' = loader(request, env.ALLOWED_IP)
       \/ variant = "part_000" /\ outcome' = loader_part000(request)
       \/ variant = "part_001" /\ outcome' = loader_part001(request, env.ALLOWED_IP)
    /\ pc' = "loaded"
    /\ UNCHANGED <<variant, request, env, page, logs, remembered>>

\* the loader returned a response: the route's default export is rendered
\* with the response's body as its loader data, and its effect logs once
App ==
    /\ pc = "loaded"
    /\ outcome.how = "return"
    /\ page' = "App"
    /\ \/ variant = "root"
          /\ logs' = Append(logs, logRecord(outcome.response.body))
       \/ variant = "part_000"
          /\ logs' = Append(logs, logRecord_part000(outcome.response.body))
       \/ variant = "part_001"
          /\ logs' = Append(logs, logRecord_part001)
    /\ pc' = "done"
    /\ UNCHANGED <<variant, request, env, outcome, remembered>>

\* the loader threw a response: the route's ErrorBoundary is rendered
ErrorBoundary ==
    /\ pc = "loaded"
    /\ outcome.how = "throw"
    /\ page' = "Access Denied"
    /\ pc' = "done"
    /\ UNCHANGED <<variant, request, env, outcome, logs, remembered>>

Next == Loader \/ App \/ ErrorBoundary

Spec == Init /\ [][Next]_vars

(* Several requests in a row against one deployment.  remembered is a      *)
(* history variable: one earlier request with its configuration and the    *)
(* loader's outcome.                                                       *)

InitSeq ==
    /\ variant \in Variants
    /\ request = NoRequest
    /\ env = [ALLOWED_IP |-> UNDEFINED]
    /\ pc = "done"
    /\ outcome = NoOutcome
    /\ page = "none"
    /\ logs = <<>>
    /\ remembered = Nothing

\* a new document request arrives; the page and its log store start afresh
Receive ==
    /\ pc = "done"
    /\ request' \in SeqRequests
    /\ env' \in [ALLOWED_IP : SeqEnvValues]
    /\ pc' = "loading"
    /\ outcome' = NoOutcome
    /\ page' = "none"
    /\ logs' = <<>>
    /\ UNCHANGED <<variant, remembered>>

Remember ==
    /\ pc = "done"
    /\ outcome # NoOutcome
    /\ remembered' = [seen |-> TRUE, request |-> request, env |-> env,
                      outcome |-> outcome]
    /\ UNCHANGED <<variant, request, env, pc, outcome, page, logs>>

NextSeq == Receive \/ Loader \/ App \/ ErrorBoundary \/ Remember

SpecSeq == InitSeq /\ [][NextSeq]_vars

----------------------------------------------------------------------------
(* Vocabulary of the properties *)

Root == variant = "root"

Decided == pc \in {"loaded", "done"}

Denied(o) == o.response.status = 403

Allowed(o) == o.how = "return" /\ o.response.status = 200

Decision(o) == IF Denied(o) THEN "deny" ELSE "allow"

\* the address a response carries: ip when allowed, requestIp when denied
ResolvedOf(o) ==
    LET body == o.response.body
    IN  IF "ip" \in DOMAIN body THEN body.ip
        ELSE IF "requestIp" \in DOMAIN body THEN body.requestIp
        ELSE UNDEFINED

\* the first comma-separated entry of a header value, trimmed; empty when
\* the header is absent
FirstEntryOf(v) == IF v = NULL THEN EMPTY ELSE Trim(Split0(v))

ValueOf(v) == IF v = NULL THEN EMPTY ELSE v

HasComma(v) == v # NULL /\ \E i \in 1..Len(v) : v[i] = ","

----------------------------------------------------------------------------
\* C1 as stated: with an allow-list configured, a resolved address that
\* differs from it and is not 127.0.0.1 is denied with the thrown 403.
C1_AsStated ==
    (Root /\ Decided /\ Truthy(env.ALLOWED_IP)
        /\ requestIp(request) # env.ALLOWED_IP
        /\ requestIp(request) # LOOPBACK)
    => (outcome.how = "throw" /\ Denied(outcome))

\* C1, amended: with an allow-list configured and a resolved address that is
\* neither '127.0.0.1' nor 'localhost', the request is allowed if and only
\* if the resolved address equals the configured value exactly, and is
\* otherwise denied with the thrown 403.
C1_DenyUnlessEqual ==
    (Root /\ Decided /\ Truthy(env.ALLOWED_IP)
        /\ requestIp(request) \notin {LOOPBACK, LOCALHOST})
    => /\ Allowed(outcome) <=> (requestIp(request) = env.ALLOWED_IP)
       /\ ~Allowed(outcome) => (outcome.how = "throw" /\ Denied(outcome))

C1_Witness ==
    /\ Root /\ pc = "done"
    /\ env.ALLOWED_IP = HARDCODED_IP
    /\ requestIp(request) = OTHER_IP
    /\ outcome.how = "throw"
    /\ page = "Access Denied"

\* C2: with ALLOWED_IP unset or empty the loader of root.tsx allows the
\* request, whatever the three headers hold.
C2_NoAllowListAllows ==
    (Root /\ Decided /\ env.ALLOWED_IP \in {UNDEFINED, EMPTY})
    => (Allowed(outcome) /\ outcome.response.body.ok)

C2_Witness ==
    /\ Root /\ pc = "done"
    /\ env.ALLOWED_IP = EMPTY
    /\ request["x-forwarded-for"] = OTHER_IP
    /\ request["cf-connecting-ip"] = NULL
    /\ Allowed(outcome)
    /\ page = "App"

\* the resolution C3 states: the first non-empty of the address of
\* cf-connecting-ip, the trimmed first entry of x-forwarded-for, x-real-ip
\* and 127.0.0.1.  The address of cf-connecting-ip is read as the loader
\* reads it, as the trimmed first entry, so that only the order is at stake.
C3_Resolution(headers) ==
    LET cf == FirstEntryOf(headers["cf-connecting-ip"])
        xff == FirstEntryOf(headers["x-forwarded-for"])
        xreal == ValueOf(headers["x-real-ip"])
    IN  IF cf # EMPTY THEN cf
        ELSE IF xff # EMPTY THEN xff
        ELSE IF xreal # EMPTY THEN xreal
        ELSE LOOPBACK

\* C3 as stated: the address the loader of root.tsx resolves is the first
\* non-empty result in the order cf-connecting-ip, first entry of
\* x-forwarded-for, x-real-ip, 127.0.0.1.
C3_AsStated ==
    (Root /\ Decided) => ResolvedOf(outcome) = C3_Resolution(request)

\* C4: with cf-connecting-ip absent and a comma-separated x-forwarded-for
\* whose left-most entry is an address, the resolved address is that entry
\* trimmed, and the outcome is the one of the same request with the later
\* entries cut off.
C4_FirstHopOnly ==
    (Root /\ Decided /\ request["cf-connecting-ip"] = NULL
        /\ HasComma(request["x-forwarded-for"]))
    => /\ FirstEntryOf(request["x-forwarded-for"]) # EMPTY
            => ResolvedOf(outcome) = FirstEntryOf(request["x-forwarded-for"])
       /\ outcome =
            loader([request EXCEPT !["x-forwarded-for"] = Split0(@)],
                   env.ALLOWED_IP)

C4_Witness ==
    /\ Root /\ pc = "done"
    /\ request["cf-connecting-ip"] = NULL
    /\ request["x-forwarded-for"] = OTHER_IP \o <<" ", ",", " ">> \o HARDCODED_IP
    /\ env.ALLOWED_IP = HARDCODED_IP
    /\ ResolvedOf(outcome) = OTHER_IP
    /\ Denied(outcome)

\* no header of the request yields a non-empty address
NoAddress(headers) ==
    /\ FirstEntryOf(headers["cf-connecting-ip"]) = EMPTY
    /\ FirstEntryOf(headers["x-forwarded-for"]) = EMPTY
    /\ ValueOf(headers["x-real-ip"]) = EMPTY

\* C5: a request whose headers yield no address resolves to 127.0.0.1 and
\* is allowed by the loader of root.tsx under every configuration, and the
\* application is rendered.
C5_FallbackAllowed ==
    (Root /\ Decided /\ NoAddress(request))
    => /\ outcome = [how |-> "return",
                     response |-> json([ok |-> TRUE, ip |-> LOOPBACK], 200)]
       /\ pc = "done" => page = "App"

C5_Witness ==
    /\ Root /\ pc = "done"
    /\ request = Headers(NULL, NULL, NULL)
    /\ env.ALLOWED_IP = HARDCODED_IP
    /\ ResolvedOf(outcome) = LOOPBACK
    /\ page = "App"

\* C6: every denial of the loader of root.tsx is a thrown response of
\* status 403 with the fixed message, the resolved address and the
\* configured value.
C6_DenialPayload ==
    (Root /\ Decided /\ ~Allowed(outcome))
    => /\ outcome.how = "throw"
       /\ outcome.response.status = 403
       /\ outcome.response.body.error = ACCESS_DENIED
       /\ outcome.response.body.requestIp = requestIp(request)
       /\ outcome.response.body.allowedIp = env.ALLOWED_IP
       /\ ~isAllowedIp(outcome.response.body.requestIp,
                       outcome.response.body.allowedIp)

C6_Witness ==
    /\ Root /\ Decided
    /\ outcome.how = "throw"
    /\ outcome.response.body.requestIp = OTHER_IP
    /\ outcome.response.body.allowedIp = HARDCODED_IP
    /\ request["cf-connecting-ip"] = OTHER_IP

\* C7 as stated: a denied request ends in the Access Denied page and App
\* logs nothing, in root.tsx (thrown 403) and in part_000 (returned 403).
C7_AsStated ==
    (variant \in {"root", "part_000"} /\ pc = "done" /\ Denied(outcome))
    => (page = "Access Denied" /\ logs = <<>>)

\* C8: for an allowed request the payload of root.tsx is { ok: true, ip }
\* with ip the resolved address, and every record App logs carries that
\* address as clientIp.
C8_PayloadAndLog ==
    (Root /\ Decided /\ Allowed(outcome))
    => /\ outcome.response.body = [ok |-> TRUE, ip |-> requestIp(request)]
       /\ pc = "done" => Len(logs) = 1
       /\ \A i \in DOMAIN logs :
            /\ logs[i].message = "Application initialized"
            /\ logs[i].clientIp = requestIp(request)
            /\ Truthy(logs[i].clientIp)

C8_Witness ==
    /\ Root /\ pc = "done"
    /\ request["x-forwarded-for"] = HARDCODED_IP \o <<" ", ",", " ">> \o HARDCODED_IP
    /\ request["cf-connecting-ip"] = NULL
    /\ env.ALLOWED_IP = HARDCODED_IP
    /\ Len(logs) = 1
    /\ logs[1].clientIp = HARDCODED_IP

ResolvedBy(v, headers) ==
    CASE v = "root" -> requestIp(headers)
      [] v = "part_000" -> requestIp_part000(headers)
      [] v = "part_001" -> ip_part001(headers)

\* C10 as stated: every variant decides as root.tsx does, on the address
\* root.tsx resolves, the hardcoded address of part_000 being its
\* configured value.
C10_AsStated ==
    Decided =>
        LET configured == IF variant = "part_000" THEN HARDCODED_IP
                          ELSE env.ALLOWED_IP
        IN  /\ Decision(outcome) = Decision(loader(request, configured))
            /\ ResolvedBy(variant, request) = requestIp(request)

====
